---- MODULE Spec2Model ----
(***************************************************************************)
(* A model of claim.js, the Sonic Odyssey reward bot: the main loop over   *)
(* the private keys, processPrivateKey with its menu, the unattended loop  *)
(* runAutoFlow, the reward actions dailyLogin, dailyClaim and              *)
(* openMysteryBox / openMultipleBoxes, and the transaction submitter       *)
(* doTransactions.                                                         *)
(*                                                                         *)
(* The program is one async activity.  Its position is pc: a position      *)
(* named "*_wait" is an await of an HTTP or RPC request, "*_delay" an      *)
(* await of a timer, "*_entry" a call that has been made and "*_return" a  *)
(* call that has returned (threw tells whether it threw).  The remote API  *)
(* and the RPC node are the environment: every answer is drawn from the    *)
(* response shapes the code distinguishes.                                 *)
(***************************************************************************)
EXTENDS Integers, Sequences, FiniteSets

\* ------------------------------------------------------------ bounds
NumKeys == 2          \* length of PRIVATE_KEYS
MaxBoxes == 2         \* largest ring_monitor a profile reports
NumSigs == 2          \* distinct signatures the RPC node hands out
MaxDaily == 12        \* largest total_transactions the API reports

\* ------------------------------------------------------------ program constants
TxDefaultRetries == 3
BoxDefaultRetries == 3
maxCounter == 3
ClaimMinTransactions == 10
TxDelayMs == 1000
BoxDelayMs == 1000
ClaimDelayMs == 1000
AutoFlowDelayMs == 43200000
CodeAlreadyClaimedA == 100015
CodeAlreadyClaimedB == 100016

\* JavaScript's undefined and NaN, kept apart from every number of the model
Undefined == -1000
NaN == -1001

MsgNotFinished == "interact task not finished"
MsgCheckedIn == "current account already checked in"
MsgOther == "other"

\* ------------------------------------------------------------ JavaScript helpers
IsNumber(x) == x # Undefined /\ x # NaN

\* a > b on numbers; with undefined or NaN on either side the comparison is false
JsGt(a, b) == IsNumber(a) /\ IsNumber(b) /\ a > b

\* a < b likewise
JsLt(a, b) == IsNumber(a) /\ IsNumber(b) /\ a < b

\* isNaN(x): x converts to NaN
JsIsNaN(x) == x = NaN \/ x = Undefined

\* ------------------------------------------------------------ responses
\* An error as the handlers read it: error.response present or not, its data
\* an object or not (null / missing), data.message and data.code.
NoResponseError == [resp |-> FALSE, data |-> FALSE, msg |-> MsgOther, code |-> 0]

NoDataError == [resp |-> TRUE, data |-> FALSE, msg |-> MsgOther, code |-> 0]

ApiErrors ==
    { [resp |-> TRUE, data |-> TRUE, msg |-> m, code |-> c] :
        m \in {MsgNotFinished, MsgCheckedIn, MsgOther},
        c \in {CodeAlreadyClaimedA, CodeAlreadyClaimedB, 0} }

\* every rejection of an axios request
HttpErrors == {NoResponseError, NoDataError} \cup ApiErrors

\* a TypeError or Error raised by the program itself carries no response
TypeError == NoResponseError

\* web3.js rejections carry no axios response
RpcErrors == {NoResponseError}

\* the answer of a request: fulfilled with a body, or rejected with an error.
\* wellFormed: the body has the fields the code reads (data.data...)
Fulfilled(wf, val) == [ok |-> TRUE, wellFormed |-> wf, value |-> val, err |-> NoResponseError]

Rejected(e) == [ok |-> FALSE, wellFormed |-> FALSE, value |-> Undefined, err |-> e]

NoAnswer == Rejected(NoResponseError)

\* answers with one value (or none that the code reads)
SimpleAnswers(vals) ==
    { Fulfilled(TRUE, v) : v \in vals } \cup { Fulfilled(FALSE, Undefined) }
        \cup { Rejected(e) : e \in HttpErrors }

RpcAnswers(vals) ==
    { Fulfilled(TRUE, v) : v \in vals } \cup { Rejected(e) : e \in RpcErrors }

\* ------------------------------------------------------------ state
VARIABLES
    keys,           \* PRIVATE_KEYS: for each key, whether it decodes to a keypair
    connection,     \* the connection handle is set
    pc,             \* position of the program
    threw,          \* at a "*_return" position: the call threw
    i,              \* main: loop index (0-based)
    invoked,        \* key indices processPrivateKey was invoked for, in order
    active,         \* key indices whose processPrivateKey has not returned
    token,          \* processPrivateKey: "unset", "undefined" or "token"
    availableBoxes, \* processPrivateKey: profile.ring_monitor
    flow,           \* processPrivateKey: "none", "auto", "claim", "open", "login"
    acting,         \* reward actions in progress
    cycleDone,      \* runAutoFlow: steps of the current cycle that have returned
    afStep,         \* runAutoFlow: which statement of the try block is running
    afBoxes,        \* runAutoFlow: availableBoxes
    totalClaim,     \* openMultipleBoxes: its count argument
    boxI,           \* openMultipleBoxes: loop index
    boxCalls,       \* openMultipleBoxes: calls of openMysteryBox it has made
    boxRetries,     \* openMysteryBox: retries argument
    boxAttempts,    \* openMysteryBox: attempts of the current call
    boxWaits,       \* openMysteryBox: lengths of the waits of the current call
    openedBox,      \* openMysteryBox: returned body, its data.success (or Undefined)
    boxSends,       \* openMysteryBox: sendRawTransaction calls of the current call
    txCaller,       \* doTransactions: "login", "box" or "none"
    txRetries,      \* doTransactions: retries argument
    txAttempts,     \* doTransactions: attempts of the current call
    txWaits,        \* doTransactions: lengths of the waits of the current call
    txErrorOf,      \* doTransactions: attempt whose error is being thrown
    sentSig,        \* doTransactions: signature of sendRawTransaction, this attempt
    confirmedSig,   \* doTransactions: signature confirmTransaction accepted (kept
                    \* until the next doTransactions starts or the caller is over)
    signature,      \* the signature doTransactions returned to its caller
    txOutcome,      \* this reward attempt: "none", "returned" or "threw"
    counter,        \* dailyClaim: stage counter
    dailyCount,     \* dailyClaim: fetchDailyResponse
    lastStage,      \* dailyClaim: stage of the latest claim request (0: none yet)
    prevStage,      \* dailyClaim: stage of the claim request before that one
    lastAnswer,     \* dailyClaim: the answer to the latest claim request
    pendingThrow,   \* dailyClaim: an error raised in the catch waits for finally
    profile,        \* getProfile: the value it returned
    inflight,       \* requests sent and not yet answered
    timer,          \* length in ms of the timer being awaited (0: none)
    log             \* what the latest step wrote to the console ("": nothing)

mainVars == <<keys, connection, i, invoked, active>>
ppkVars == <<token, availableBoxes, flow>>
ombVars == <<totalClaim, boxI, boxCalls>>
boxVars == <<boxRetries, boxAttempts, boxWaits, openedBox, boxSends>>
txVars == <<txCaller, txRetries, txAttempts, txWaits, txErrorOf, sentSig, confirmedSig>>
sigVars == <<signature, txOutcome>>
dcVars == <<counter, dailyCount, lastStage, prevStage, lastAnswer, pendingThrow>>
afVars == <<cycleDone, afStep, afBoxes>>

vars == <<pc, threw, mainVars, ppkVars, profile, acting, afVars, ombVars, boxVars, txVars,
          sigVars, dcVars, inflight, timer, log>>

\* ------------------------------------------------------------ requests
Req(ep, auth, stage, hash) == [ep |-> ep, auth |-> auth, stage |-> stage, hash |-> hash]

\* issuing a request: it is outstanding until it is answered
Send(q, r) == Append(q, r)

AwaitSkipped(q) == q

\* `await`: the program resumes when the request it issued has been answered
Await(q) == Tail(q)

Waiting(ep) == inflight # <<>> /\ Head(inflight).ep = ep

\* getProfile's value: data.data of the answer, undefined after a failure
NoProfile == [defined |-> FALSE, wallet_balance |-> Undefined, ring_monitor |-> Undefined]

Profiles ==
    { [defined |-> TRUE, wallet_balance |-> w, ring_monitor |-> r] :
        w \in {Undefined, 0, 1}, r \in {Undefined} \cup 0..MaxBoxes }

ProfileAnswers ==
    { [ok |-> TRUE, profile |-> p, err |-> NoResponseError] : p \in Profiles \cup {NoProfile} }
        \cup { [ok |-> FALSE, profile |-> NoProfile, err |-> e] : e \in HttpErrors }

\* what the user may type at "How many boxes do you want to open?", as the
\* number the string converts to
BoxInputs == {NaN} \cup (-1)..(MaxBoxes + 1)

Signatures == 1..NumSigs

NoSig == 0

\* ------------------------------------------------------------ initial state
Init ==
    /\ keys \in UNION { [1..n -> BOOLEAN] : n \in 0..NumKeys }
    /\ connection = FALSE
    /\ pc = "main_start"
    /\ threw = FALSE
    /\ i = 0
    /\ invoked = <<>>
    /\ active = {}
    /\ token = "unset"
    /\ availableBoxes = Undefined
    /\ flow = "none"
    /\ profile = NoProfile
    /\ acting = {}
    /\ cycleDone = {}
    /\ afStep = 0
    /\ afBoxes = Undefined
    /\ totalClaim = 0
    /\ boxI = 0
    /\ boxCalls = 0
    /\ boxRetries = 0
    /\ boxAttempts = 0
    /\ boxWaits = <<>>
    /\ openedBox = Undefined
    /\ boxSends = 0
    /\ txCaller = "none"
    /\ txRetries = 0
    /\ txAttempts = 0
    /\ txWaits = <<>>
    /\ txErrorOf = 0
    /\ sentSig = NoSig
    /\ confirmedSig = NoSig
    /\ signature = NoSig
    /\ txOutcome = "none"
    /\ counter = 1
    /\ dailyCount = Undefined
    /\ lastStage = 0
    /\ prevStage = 0
    /\ lastAnswer = NoAnswer
    /\ pendingThrow = FALSE
    /\ inflight = <<>>
    /\ timer = 0
    /\ log = ""

\* ------------------------------------------------------------ main
\* displayHeader, getNetworkTypeFromUser, connection = getConnection()
Main_Start ==
    /\ pc = "main_start"
    /\ connection' = TRUE
    /\ i' = 0
    /\ pc' = "main_loop"
    /\ UNCHANGED <<threw, keys, invoked, active, ppkVars, profile, acting, afVars, ombVars,
                   boxVars, txVars, sigVars, dcVars, inflight, timer>>
    /\ log' = ""

\* for (let i = 0; i < PRIVATE_KEYS.length; i++) await processPrivateKey(...)
Main_Loop ==
    /\ pc = "main_loop"
    /\ IF i < Len(keys)
         THEN /\ pc' = "ppk_entry"
              /\ invoked' = Append(invoked, i)
              /\ active' = active \cup {i}
              /\ log' = ""
         ELSE /\ pc' = "main_finally"
              /\ log' = "All private keys processed."
              /\ UNCHANGED <<invoked, active>>
    /\ UNCHANGED <<threw, keys, connection, i, ppkVars, profile, acting, afVars,
                   ombVars, boxVars, txVars, sigVars, dcVars, inflight, timer>>

\* processPrivateKey returned to the loop (a throw would leave the loop)
Main_AfterKey ==
    /\ pc = "ppk_return"
    /\ active' = active \ {i}
    /\ IF threw
         THEN /\ pc' = "main_finally"
              /\ log' = "Error in bot operation"
              /\ i' = i
         ELSE /\ pc' = "main_loop"
              /\ i' = i + 1
              /\ log' = ""
    /\ threw' = FALSE
    /\ token' = "unset"
    /\ availableBoxes' = Undefined
    /\ flow' = "none"
    /\ UNCHANGED <<keys, connection, invoked, profile, acting, afVars,
                   ombVars, boxVars, txVars, sigVars, dcVars, inflight, timer>>

Main_Finally ==
    /\ pc = "main_finally"
    /\ pc' = "exit"
    /\ log' = "Thanks for having us!"
    /\ UNCHANGED <<threw, mainVars, ppkVars, profile, acting, afVars, ombVars, boxVars,
                   txVars, sigVars, dcVars, inflight, timer>>

\* ------------------------------------------------------------ processPrivateKey
PPK_CaughtRethrows ==
    /\ pc' = "ppk_return"
    /\ threw' = TRUE
    /\ log' = "Error processing private key"

\* the catch of processPrivateKey: log, fall through to the end of the function
PPK_Caught ==
    /\ pc' = "ppk_return"
    /\ threw' = FALSE
    /\ log' = "Error processing private key"

\* getKeypair(privateKey), then getToken sends the challenge request
PPK_Entry ==
    /\ pc = "ppk_entry"
    /\ token' = "unset"
    /\ availableBoxes' = Undefined
    /\ flow' = "none"
    /\ IF keys[i + 1]
         THEN /\ inflight' = Send(inflight, Req("challenge", "none", 0, NoSig))
              /\ pc' = "gt_challenge_wait"
              /\ UNCHANGED threw
              /\ log' = ""
         ELSE /\ PPK_Caught
              /\ UNCHANGED inflight
    /\ UNCHANGED <<mainVars, profile, acting, afVars, ombVars, boxVars, txVars,
                   sigVars, dcVars, timer>>

\* ------------------------------------------------------------ getToken, getProfile
\* getToken after the challenge; the caller goes on to getProfile(token) whatever
\* getToken returned
GT_Challenge ==
    /\ pc = "gt_challenge_wait"
    /\ Waiting("challenge")
    /\ \E a \in SimpleAnswers({0}) :
         IF a.ok /\ a.wellFormed
           THEN /\ inflight' = Send(Await(inflight), Req("authorize", "none", 0, NoSig))
                /\ pc' = "gt_authorize_wait"
                /\ UNCHANGED token
                /\ log' = ""
           ELSE /\ token' = "undefined"
                /\ log' = "Error fetching token"
                /\ inflight' = Send(Await(inflight), Req("profile", "undefined", 0, NoSig))
                /\ pc' = "gp_wait"
    /\ UNCHANGED <<threw, mainVars, availableBoxes, flow, profile, acting, afVars,
                   ombVars, boxVars, txVars, sigVars, dcVars, timer>>

\* getToken after authorize: response.data.data.token
GT_Authorize ==
    /\ pc = "gt_authorize_wait"
    /\ Waiting("authorize")
    /\ \E a \in SimpleAnswers({1, Undefined}) :
         /\ IF a.ok /\ a.wellFormed
              THEN /\ token' = IF a.value = Undefined THEN "undefined" ELSE "token"
                   /\ log' = ""
              ELSE /\ token' = "undefined"
                   /\ log' = "Error fetching token"
         /\ inflight' = Send(Await(inflight), Req("profile", token', 0, NoSig))
         /\ pc' = "gp_wait"
    /\ UNCHANGED <<threw, mainVars, availableBoxes, flow, profile, acting, afVars,
                   ombVars, boxVars, txVars, sigVars, dcVars, timer>>

\* getProfile: data.data, or undefined after the logged error
GP_Answer ==
    /\ pc = "gp_wait"
    /\ Waiting("profile")
    /\ \E a \in ProfileAnswers :
         /\ profile' = a.profile
         /\ log' = IF a.ok THEN "" ELSE "Error fetching profile"
    /\ inflight' = Await(inflight)
    /\ pc' = "gp_return"
    /\ UNCHANGED <<threw, mainVars, ppkVars, acting, afVars, ombVars, boxVars,
                   txVars, sigVars, dcVars, timer>>

\* processPrivateKey after getProfile: profile.wallet_balance > 0
PPK_AfterProfile ==
    /\ pc = "gp_return"
    /\ flow = "none"
    /\ IF ~profile.defined
         THEN /\ PPK_Caught
              /\ UNCHANGED availableBoxes
         ELSE IF JsGt(profile.wallet_balance, 0)
                THEN /\ availableBoxes' = profile.ring_monitor
                     /\ pc' = "ppk_menu"
                     /\ log' = "Hello"
                     /\ UNCHANGED threw
                ELSE /\ pc' = "ppk_return"
                     /\ log' = "There might be errors"
                     /\ UNCHANGED <<threw, availableBoxes>>
    /\ profile' = NoProfile
    /\ UNCHANGED <<mainVars, token, flow, acting, afVars, ombVars, boxVars, txVars,
                   sigVars, dcVars, inflight, timer>>

\* the two questions: auto flow (y/n), then the input method
PPK_Menu ==
    /\ pc = "ppk_menu"
    /\ \E isAutoFlow \in BOOLEAN, method \in {"1", "2", "3", "other"} :
         IF isAutoFlow
           THEN /\ flow' = "auto"
                /\ pc' = "af_cycle"
                /\ log' = "Starting auto flow..."
                /\ UNCHANGED threw
           ELSE CASE method = "1" -> /\ flow' = "claim"
                                     /\ pc' = "dc_entry"
                                     /\ log' = "Claiming daily rewards..."
                                     /\ UNCHANGED threw
                  [] method = "2" -> /\ flow' = "open"
                                     /\ pc' = "ppk_ask_boxes"
                                     /\ UNCHANGED threw
                                     /\ log' = ""
                  [] method = "3" -> /\ flow' = "login"
                                     /\ pc' = "dl_entry"
                                     /\ log' = "Performing daily login..."
                                     /\ UNCHANGED threw
                  [] OTHER -> /\ PPK_Caught
                              /\ UNCHANGED flow
    \* only the box prompt of method 2 reads availableBoxes again
    /\ availableBoxes' = IF flow' = "open" THEN availableBoxes ELSE Undefined
    /\ UNCHANGED <<mainVars, token, profile, acting, afVars, ombVars, boxVars, txVars,
                   sigVars, dcVars, inflight, timer>>

TooManyBoxesOffByOne(count, available) == JsGt(count, available + 1)

\* totalClaim > availableBoxes, the test of the box prompt and of its loop
TooManyBoxes(count, available) == JsGt(count, available)

\* do { totalClaim = question(...) ... } while (totalClaim > availableBoxes)
PPK_AskBoxes ==
    /\ pc = "ppk_ask_boxes"
    /\ \E input \in BoxInputs :
         IF TooManyBoxes(input, availableBoxes)
           THEN /\ log' = "You cannot open more boxes than available"
                /\ pc' = "ppk_ask_boxes"
                /\ UNCHANGED <<totalClaim, boxI, boxCalls>>
           ELSE IF JsIsNaN(input)
                  THEN /\ log' = "Please enter a valid number"
                       /\ pc' = "ppk_return"
                       /\ UNCHANGED <<totalClaim, boxI, boxCalls>>
                  ELSE /\ log' = "Opening boxes..."
                       /\ totalClaim' = input
                       /\ boxI' = 0
                       /\ boxCalls' = 0
                       /\ pc' = "omb_loop"
    /\ UNCHANGED <<threw, mainVars, ppkVars, profile, acting, afVars, boxVars,
                   txVars, sigVars, dcVars, inflight, timer>>

\* openMultipleBoxes came back to the menu branch
PPK_AfterBoxes ==
    /\ pc = "omb_return"
    /\ flow = "open"
    /\ IF threw
         THEN PPK_Caught
         ELSE /\ log' = "Box opening completed!"
              /\ pc' = IF TooManyBoxes(totalClaim, availableBoxes) THEN "ppk_ask_boxes"
                       ELSE "ppk_return"
              /\ UNCHANGED threw
    /\ acting' = acting \ {"box"}
    /\ totalClaim' = 0
    /\ boxI' = 0
    /\ boxCalls' = 0
    /\ UNCHANGED <<mainVars, ppkVars, profile, afVars, boxVars,
                   txVars, sigVars, dcVars, inflight, timer>>

\* dailyClaim came back to the menu branch
PPK_AfterClaim ==
    /\ pc = "dc_return"
    /\ flow = "claim"
    /\ IF threw
         THEN PPK_Caught
         ELSE /\ log' = "Daily claim completed!"
              /\ pc' = "ppk_return"
              /\ UNCHANGED threw
    /\ acting' = acting \ {"claim"}
    /\ counter' = 1
    /\ dailyCount' = Undefined
    /\ lastStage' = 0
    /\ prevStage' = 0
    /\ lastAnswer' = NoAnswer
    /\ UNCHANGED <<mainVars, ppkVars, profile, afVars, ombVars, boxVars, txVars,
                   sigVars, pendingThrow, inflight, timer>>

\* dailyLogin came back to the menu branch
PPK_AfterLogin ==
    /\ pc = "dl_return"
    /\ flow = "login"
    /\ IF threw
         THEN PPK_Caught
         ELSE /\ log' = "Daily login completed!"
              /\ pc' = "ppk_return"
              /\ UNCHANGED threw
    /\ acting' = acting \ {"login"}
    /\ signature' = NoSig
    /\ txOutcome' = "none"
    /\ confirmedSig' = NoSig
    /\ UNCHANGED <<mainVars, ppkVars, profile, afVars, ombVars, boxVars, txCaller, txRetries,
                   txAttempts, txWaits, txErrorOf, sentSig, dcVars, inflight, timer>>

\* ------------------------------------------------------------ runAutoFlow
AutoFlowOrderClaimFirst == <<"claim", "login", "profile", "boxes">>

\* the statements of the try block of one cycle, in program order
AutoFlowOrder == <<"login", "claim", "profile", "boxes">>

\* the catch of runAutoFlow, then the 12-hour wait
AF_Caught ==
    /\ threw' = FALSE
    /\ log' = "Error in auto flow"
    /\ timer' = AutoFlowDelayMs
    /\ pc' = "af_delay"
    /\ totalClaim' = 0
    /\ boxI' = 0
    /\ boxCalls' = 0
    /\ UNCHANGED <<afStep, inflight>>

\* the statement `name` of the try block starts
AF_Call(name) ==
    /\ threw' = FALSE
    /\ timer' = timer
    /\ log' = ""
    /\ CASE name = "login" -> /\ pc' = "dl_entry"
                              /\ UNCHANGED <<inflight, ombVars>>
         [] name = "claim" -> /\ pc' = "dc_entry"
                              /\ UNCHANGED <<inflight, ombVars>>
         [] name = "profile" -> /\ inflight' = Send(inflight, Req("profile", token, 0, NoSig))
                                /\ pc' = "gp_wait"
                                /\ UNCHANGED ombVars
         [] name = "boxes" -> /\ totalClaim' = afBoxes'
                              /\ boxI' = 0
                              /\ boxCalls' = 0
                              /\ pc' = "omb_loop"
                              /\ UNCHANGED inflight

\* the next statement of the try block, or the end of the cycle
AF_Proceed ==
    IF afStep < Len(AutoFlowOrder)
      THEN /\ afStep' = afStep + 1
           /\ AF_Call(AutoFlowOrder[afStep + 1])
      ELSE /\ threw' = FALSE
           /\ log' = "Auto flow completed!"
           /\ timer' = AutoFlowDelayMs
           /\ pc' = "af_delay"
           /\ totalClaim' = 0
           /\ boxI' = 0
           /\ boxCalls' = 0
           /\ UNCHANGED <<afStep, inflight>>

\* while (true) { try { ...
AF_Cycle ==
    /\ pc = "af_cycle"
    /\ cycleDone' = {}
    /\ afBoxes' = Undefined
    /\ afStep' = 1
    /\ AF_Call(AutoFlowOrder[1])
    /\ UNCHANGED <<mainVars, ppkVars, profile, acting, boxVars, txVars, sigVars, dcVars>>

AF_AfterLogin ==
    /\ pc = "dl_return"
    /\ flow = "auto"
    /\ acting' = acting \ {"login"}
    /\ afBoxes' = afBoxes
    /\ IF threw
         THEN AF_Caught /\ UNCHANGED cycleDone
         ELSE AF_Proceed /\ cycleDone' = cycleDone \cup {"login"}
    /\ signature' = NoSig
    /\ txOutcome' = "none"
    /\ confirmedSig' = NoSig
    /\ UNCHANGED <<mainVars, ppkVars, profile, boxVars, txCaller, txRetries, txAttempts,
                   txWaits, txErrorOf, sentSig, dcVars>>

AF_AfterClaim ==
    /\ pc = "dc_return"
    /\ flow = "auto"
    /\ acting' = acting \ {"claim"}
    /\ afBoxes' = afBoxes
    /\ IF threw
         THEN AF_Caught /\ UNCHANGED cycleDone
         ELSE AF_Proceed /\ cycleDone' = cycleDone \cup {"claim"}
    /\ counter' = 1
    /\ dailyCount' = Undefined
    /\ lastStage' = 0
    /\ prevStage' = 0
    /\ lastAnswer' = NoAnswer
    /\ UNCHANGED <<mainVars, ppkVars, profile, boxVars, txVars, sigVars, pendingThrow>>

\* const availableBoxes = (await getProfile(token)).ring_monitor
AF_AfterProfile ==
    /\ pc = "gp_return"
    /\ flow = "auto"
    /\ IF ~profile.defined
         THEN AF_Caught /\ UNCHANGED <<cycleDone, afBoxes>>
         ELSE /\ afBoxes' = profile.ring_monitor
              /\ cycleDone' = cycleDone \cup {"profile"}
              /\ AF_Proceed
    /\ profile' = NoProfile
    /\ UNCHANGED <<mainVars, ppkVars, acting, boxVars, txVars, sigVars, dcVars>>

AF_AfterBoxes ==
    /\ pc = "omb_return"
    /\ flow = "auto"
    /\ acting' = acting \ {"box"}
    /\ afBoxes' = afBoxes
    /\ IF threw
         THEN AF_Caught /\ UNCHANGED cycleDone
         ELSE AF_Proceed /\ cycleDone' = cycleDone \cup {"boxes"}
    /\ UNCHANGED <<mainVars, ppkVars, profile, boxVars, txVars, sigVars, dcVars>>

\* await delay(12 * 60 * 60 * 1000), then the next cycle
AF_Delay ==
    /\ pc = "af_delay"
    /\ timer' = 0
    /\ pc' = "af_cycle"
    /\ UNCHANGED <<threw, mainVars, ppkVars, profile, acting, afVars, ombVars, boxVars,
                   txVars, sigVars, dcVars, inflight>>
    /\ log' = ""

\* ------------------------------------------------------------ doTransactions
TxShouldRetryOnceMore(retries) == retries >= 0

\* if (retries > 0) in the catch of doTransactions
TxShouldRetry(retries) == retries > 0

TxBackoffDelay(retries) == TxDelayMs * (TxDefaultRetries + 1 - retries)

\* setTimeout(res, 1000) in the catch of doTransactions
TxRetryDelay(retries) == TxDelayMs

TxReturnsUnconfirmed(sent, confirmed) == TRUE

\* doTransactions returns only past `await connection.confirmTransaction(signature)`
TxMayReturn(sent, confirmed) == confirmed

\* a call doTransactions(tx, keypair) with the default retries
TX_Call(caller) ==
    /\ txCaller' = caller
    /\ txRetries' = TxDefaultRetries
    /\ txAttempts' = 0
    /\ txWaits' = <<>>
    /\ txErrorOf' = 0
    /\ sentSig' = NoSig
    /\ confirmedSig' = NoSig
    /\ pc' = "tx_entry"

\* the call is over: its arguments and locals are gone
TX_Clear ==
    /\ txCaller' = "none"
    /\ txRetries' = 0
    /\ txAttempts' = 0
    /\ txWaits' = <<>>
    /\ txErrorOf' = 0
    /\ sentSig' = NoSig
    /\ UNCHANGED confirmedSig

\* the catch of doTransactions in attempt number n: wait and recurse, or rethrow
TX_Catch(n) ==
    IF TxShouldRetry(txRetries)
      THEN /\ log' = "Retrying transaction..."
           /\ timer' = TxRetryDelay(txRetries)
           /\ txWaits' = Append(txWaits, timer')
           /\ pc' = "tx_delay"
           /\ UNCHANGED <<threw, txErrorOf, signature, txOutcome>>
      ELSE /\ log' = "Error in transaction"
           /\ txErrorOf' = n
           /\ txOutcome' = "threw"
           /\ threw' = TRUE
           /\ pc' = "tx_return"
           /\ UNCHANGED <<timer, txWaits, signature>>

\* an attempt starts: tx.serialize(), then sendRawTransaction is awaited
TX_Attempt ==
    /\ pc = "tx_entry"
    /\ txAttempts' = txAttempts + 1
    /\ sentSig' = NoSig
    /\ \E serialized \in BOOLEAN :
         IF serialized
           THEN /\ inflight' = Send(inflight, Req("sendRawTransaction", "none", 0, NoSig))
                /\ boxSends' = IF txCaller = "box" THEN boxSends + 1 ELSE boxSends
                /\ pc' = "tx_send_wait"
                /\ UNCHANGED <<threw, timer, txWaits, txErrorOf, signature, txOutcome>>
                /\ log' = ""
           ELSE /\ TX_Catch(txAttempts + 1)
                /\ UNCHANGED <<inflight, boxSends>>
    /\ UNCHANGED <<mainVars, ppkVars, profile, acting, afVars, ombVars, boxRetries,
                   boxAttempts, boxWaits, openedBox, txCaller, txRetries, confirmedSig,
                   dcVars>>

TX_SendAnswer ==
    /\ pc = "tx_send_wait"
    /\ Waiting("sendRawTransaction")
    /\ \E a \in RpcAnswers(Signatures) :
         IF a.ok
           THEN /\ sentSig' = a.value
                /\ inflight' = Send(Await(inflight),
                                    Req("confirmTransaction", "none", 0, a.value))
                /\ pc' = "tx_confirm_wait"
                /\ UNCHANGED <<threw, timer, txWaits, txErrorOf, signature, txOutcome>>
                /\ log' = ""
           ELSE /\ TX_Catch(txAttempts)
                /\ inflight' = Await(inflight)
                /\ UNCHANGED sentSig
    /\ UNCHANGED <<mainVars, ppkVars, profile, acting, afVars, ombVars, boxVars, txCaller,
                   txRetries, txAttempts, confirmedSig, dcVars>>

\* the signature is returned once confirmTransaction has resolved
TX_Return ==
    /\ signature' = sentSig
    /\ txOutcome' = "returned"
    /\ threw' = FALSE
    /\ pc' = "tx_return"
    /\ UNCHANGED <<timer, txWaits, txErrorOf>>
    /\ log' = ""

TX_ConfirmAnswer ==
    /\ pc = "tx_confirm_wait"
    /\ Waiting("confirmTransaction")
    /\ inflight' = Await(inflight)
    /\ \E a \in RpcAnswers({0}) :
         /\ confirmedSig' = IF a.ok THEN sentSig ELSE confirmedSig
         /\ IF TxMayReturn(sentSig, a.ok) THEN TX_Return ELSE TX_Catch(txAttempts)
    /\ UNCHANGED <<mainVars, ppkVars, profile, acting, afVars, ombVars, boxVars, txCaller,
                   txRetries, txAttempts, sentSig, dcVars>>

\* the timer of the catch fired: return doTransactions(tx, keypair, retries - 1)
TX_Delay ==
    /\ pc = "tx_delay"
    /\ timer' = 0
    /\ txRetries' = txRetries - 1
    /\ pc' = "tx_entry"
    /\ UNCHANGED <<threw, mainVars, ppkVars, profile, acting, afVars, ombVars, boxVars,
                   txCaller, txAttempts, txWaits, txErrorOf, sentSig, confirmedSig,
                   sigVars, dcVars, inflight>>
    /\ log' = ""

\* ------------------------------------------------------------ dailyLogin
\* reading error.response.data.message of a response without data throws
HandlerThrows(err) == err.resp /\ ~err.data

\* data: { hash: signature }
PostHash(sig) == sig

\* the catch of dailyLogin: both branches log and fall through; the test of the
\* message itself throws when the response carries no data
DL_Catch(err) ==
    /\ pc' = "dl_return"
    /\ threw' = HandlerThrows(err)
    /\ log' = IF HandlerThrows(err) THEN ""
              ELSE IF err.resp /\ err.msg = MsgCheckedIn THEN "Error in daily login"
              ELSE "Error claiming"

\* GET /user/check-in/transaction
DL_Entry ==
    /\ pc = "dl_entry"
    /\ acting' = acting \cup {"login"}
    /\ signature' = NoSig
    /\ txOutcome' = "none"
    /\ inflight' = Send(inflight, Req("checkin_tx", token, 0, NoSig))
    /\ pc' = "dl_tx_wait"
    /\ UNCHANGED <<threw, mainVars, ppkVars, profile, afVars, ombVars, boxVars, txVars,
                   dcVars, timer>>
    /\ log' = ""

\* Transaction.from(data.data.hash), partialSign, doTransactions(tx, keypair)
DL_TxAnswer ==
    /\ pc = "dl_tx_wait"
    /\ Waiting("checkin_tx")
    /\ inflight' = Await(inflight)
    /\ \E a \in SimpleAnswers({0}) :
         IF a.ok /\ a.wellFormed
           THEN /\ TX_Call("login")
                /\ UNCHANGED threw
                /\ log' = ""
           ELSE /\ DL_Catch(IF a.ok THEN TypeError ELSE a.err)
                /\ UNCHANGED txVars
    /\ UNCHANGED <<mainVars, ppkVars, profile, acting, afVars, ombVars, boxVars, sigVars,
                   dcVars, timer>>

\* doTransactions came back to dailyLogin: POST /user/check-in with the hash
DL_AfterTx ==
    /\ pc = "tx_return"
    /\ txCaller = "login"
    /\ IF threw
         THEN /\ DL_Catch(NoResponseError)
              /\ UNCHANGED inflight
         ELSE /\ inflight' = Send(inflight, Req("checkin", token, 0, PostHash(signature)))
              /\ pc' = "dl_post_wait"
              /\ UNCHANGED threw
              /\ log' = ""
    /\ TX_Clear
    /\ UNCHANGED <<mainVars, ppkVars, profile, acting, afVars, ombVars, boxVars,
                   sigVars, dcVars, timer>>

DL_PostAnswer ==
    /\ pc = "dl_post_wait"
    /\ Waiting("checkin")
    /\ inflight' = Await(inflight)
    /\ \E a \in SimpleAnswers({0}) :
         IF a.ok
           THEN /\ pc' = "dl_return"
                /\ threw' = FALSE
                /\ log' = ""
           ELSE DL_Catch(a.err)
    /\ UNCHANGED <<mainVars, ppkVars, profile, acting, afVars, ombVars, boxVars, txVars,
                   sigVars, dcVars, timer>>

\* ------------------------------------------------------------ openMysteryBox
BoxShouldRetryOnceMore(retries) == retries >= 0

\* if (retries > 0) in the catch of openMysteryBox
BoxShouldRetry(retries) == retries > 0

\* setTimeout(res, 1000) in the catch of openMysteryBox
BoxRetryDelay(retries) == BoxDelayMs

\* the catch of openMysteryBox: wait and recurse, or rethrow
OB_Catch ==
    IF BoxShouldRetry(boxRetries)
      THEN /\ log' = "Retrying opening mystery box..."
           /\ timer' = BoxRetryDelay(boxRetries)
           /\ boxWaits' = Append(boxWaits, timer')
           /\ pc' = "ob_delay"
           /\ threw' = FALSE
           /\ UNCHANGED openedBox
      ELSE /\ log' = "Error opening mystery box"
           /\ threw' = TRUE
           /\ pc' = "ob_return"
           /\ UNCHANGED <<timer, boxWaits, openedBox>>

\* an attempt starts: GET /user/rewards/mystery-box/build-tx
OB_Attempt ==
    /\ pc = "ob_entry"
    /\ boxAttempts' = boxAttempts + 1
    /\ signature' = NoSig
    /\ txOutcome' = "none"
    /\ inflight' = Send(inflight, Req("build_tx", token, 0, NoSig))
    /\ pc' = "ob_build_wait"
    /\ UNCHANGED <<threw, mainVars, ppkVars, profile, acting, afVars, ombVars, boxRetries,
                   boxWaits, openedBox, boxSends, txVars, dcVars, timer>>
    /\ log' = ""

OB_BuildAnswer ==
    /\ pc = "ob_build_wait"
    /\ Waiting("build_tx")
    /\ inflight' = Await(inflight)
    /\ \E a \in SimpleAnswers({0}) :
         IF a.ok /\ a.wellFormed
           THEN /\ TX_Call("box")
                /\ UNCHANGED <<threw, timer, boxWaits, openedBox>>
                /\ log' = ""
           ELSE /\ OB_Catch
                /\ UNCHANGED txVars
    /\ UNCHANGED <<mainVars, ppkVars, profile, acting, afVars, ombVars, boxRetries,
                   boxAttempts, boxSends, sigVars, dcVars>>

\* doTransactions came back to openMysteryBox: POST .../mystery-box/open
OB_AfterTx ==
    /\ pc = "tx_return"
    /\ txCaller = "box"
    /\ IF threw
         THEN /\ OB_Catch
              /\ UNCHANGED inflight
         ELSE /\ inflight' = Send(inflight, Req("open", token, 0, PostHash(signature)))
              /\ pc' = "ob_post_wait"
              /\ UNCHANGED <<threw, timer, boxWaits, openedBox>>
              /\ log' = ""
    /\ TX_Clear
    /\ UNCHANGED <<mainVars, ppkVars, profile, acting, afVars, ombVars, boxRetries,
                   boxAttempts, boxSends, sigVars, dcVars>>

\* return response.data: the body, whose data.success openMultipleBoxes reads
OB_PostAnswer ==
    /\ pc = "ob_post_wait"
    /\ Waiting("open")
    /\ inflight' = Await(inflight)
    /\ \E a \in SimpleAnswers({0, 1}) :
         IF a.ok
           THEN /\ openedBox' = a.value
                /\ pc' = "ob_return"
                /\ threw' = FALSE
                /\ UNCHANGED <<timer, boxWaits>>
                /\ log' = ""
           ELSE OB_Catch
    /\ UNCHANGED <<mainVars, ppkVars, profile, acting, afVars, ombVars, boxRetries,
                   boxAttempts, boxSends, txVars, sigVars, dcVars>>

\* the timer of the catch fired: return openMysteryBox(token, keypair, retries - 1)
OB_Delay ==
    /\ pc = "ob_delay"
    /\ timer' = 0
    /\ boxRetries' = boxRetries - 1
    /\ pc' = "ob_entry"
    /\ UNCHANGED <<threw, mainVars, ppkVars, profile, acting, afVars, ombVars, boxAttempts,
                   boxWaits, openedBox, boxSends, txVars, sigVars, dcVars,
                   inflight>>
    /\ log' = ""

\* ------------------------------------------------------------ openMultipleBoxes
MoreBoxesInclusive(idx, count) == idx = count \/ JsLt(idx, count)

\* i < totalClaim, the test of the loop of openMultipleBoxes
MoreBoxes(idx, count) == JsLt(idx, count)

\* for (let i = 0; i < totalClaim; i++) await openMysteryBox(token, keypair)
OMB_Loop ==
    /\ pc = "omb_loop"
    /\ acting' = acting \cup {"box"}
    /\ IF MoreBoxes(boxI, totalClaim)
         THEN /\ boxRetries' = BoxDefaultRetries
              /\ boxAttempts' = 0
              /\ boxWaits' = <<>>
              /\ openedBox' = Undefined
              /\ boxSends' = 0
              /\ boxCalls' = boxCalls + 1
              /\ pc' = "ob_entry"
              /\ UNCHANGED threw
         ELSE /\ pc' = "omb_return"
              /\ threw' = FALSE
              /\ UNCHANGED <<boxVars, boxCalls>>
    /\ UNCHANGED <<mainVars, ppkVars, profile, afVars, totalClaim, boxI, txVars, sigVars,
                   dcVars, inflight, timer>>
    /\ log' = ""

\* openMysteryBox came back: openedBox.data.success, then i++
OMB_AfterBox ==
    /\ pc = "ob_return"
    /\ IF threw \/ openedBox = Undefined
         THEN /\ pc' = "omb_return"
              /\ threw' = TRUE
              /\ UNCHANGED boxI
              /\ log' = ""
         ELSE /\ log' = IF openedBox = 1 THEN "Box opened successfully!"
                        ELSE "All boxes have been opened."
              /\ boxI' = boxI + 1
              /\ pc' = "omb_loop"
              /\ UNCHANGED threw
    /\ boxRetries' = 0
    /\ boxAttempts' = 0
    /\ boxWaits' = <<>>
    /\ openedBox' = Undefined
    /\ boxSends' = 0
    /\ signature' = NoSig
    /\ txOutcome' = "none"
    /\ confirmedSig' = NoSig
    /\ UNCHANGED <<mainVars, ppkVars, profile, acting, afVars, totalClaim, boxCalls, txCaller,
                   txRetries, txAttempts, txWaits, txErrorOf, sentSig, dcVars, inflight,
                   timer>>

\* ------------------------------------------------------------ fetchDaily, dailyClaim
DailyCounts == {Undefined} \cup 0..MaxDaily

EnoughFromThreshold(count) == JsGt(count, ClaimMinTransactions - 1)

\* if (fetchDailyResponse > 10)
EnoughTransactions(count) == JsGt(count, ClaimMinTransactions)

IsAlreadyClaimed(err) == err.code = CodeAlreadyClaimedA \/ err.code = CodeAlreadyClaimedB

AdvancesOnAnyAnswer(a) == ~(~a.ok /\ HandlerThrows(a.err))

\* the answers after which the loop of dailyClaim runs counter++: the request
\* resolved and data.data.claimed could be read, or it was rejected with the
\* message 'interact task not finished' or with code 100015 / 100016
ClaimAdvances(a) ==
    \/ a.ok /\ a.wellFormed
    \/ /\ ~a.ok
       /\ a.err.resp
       /\ a.err.data
       /\ (a.err.msg = MsgNotFinished \/ IsAlreadyClaimed(a.err))

MaxStageOneMore == maxCounter + 1

\* while (counter <= maxCounter)
MaxStage == maxCounter

DC_Entry ==
    /\ pc = "dc_entry"
    /\ acting' = acting \cup {"claim"}
    /\ counter' = 1
    /\ dailyCount' = Undefined
    /\ lastStage' = 0
    /\ prevStage' = 0
    /\ lastAnswer' = NoAnswer
    /\ pendingThrow' = FALSE
    /\ inflight' = Send(inflight, Req("daily", token, 0, NoSig))
    /\ pc' = "fd_wait"
    /\ UNCHANGED <<threw, mainVars, ppkVars, profile, afVars, ombVars, boxVars, txVars,
                   sigVars, timer>>
    /\ log' = ""

\* fetchDaily: data.data.total_transactions, or undefined after the logged error
FD_Answer ==
    /\ pc = "fd_wait"
    /\ Waiting("daily")
    /\ inflight' = Await(inflight)
    /\ \E a \in SimpleAnswers(DailyCounts) :
         /\ dailyCount' = IF a.ok /\ a.wellFormed THEN a.value ELSE Undefined
         /\ log' = IF a.ok /\ a.wellFormed THEN "" ELSE "Error in daily fetching"
    /\ pc' = "fd_return"
    /\ UNCHANGED <<threw, mainVars, ppkVars, profile, acting, afVars, ombVars, boxVars,
                   txVars, sigVars, counter, lastStage, prevStage, lastAnswer,
                   pendingThrow, timer>>

\* dailyClaim after fetchDaily: enter the loop, or throw into the outer catch
DC_AfterFetch ==
    /\ pc = "fd_return"
    /\ IF EnoughTransactions(dailyCount)
         THEN /\ pc' = "dc_loop"
              /\ log' = "Your total transactions"
         ELSE /\ pc' = "dc_return"
              /\ log' = "Error in daily claim: Not enough transactions to claim rewards."
    /\ threw' = FALSE
    /\ UNCHANGED <<mainVars, ppkVars, profile, acting, afVars, ombVars, boxVars, txVars,
                   sigVars, dcVars, inflight, timer>>

\* the loop test, then POST /user/transactions/rewards/claim { stage: counter }
DC_Loop ==
    /\ pc = "dc_loop"
    /\ IF counter <= MaxStage
         THEN /\ inflight' = Send(inflight, Req("claim", token, counter, NoSig))
              /\ prevStage' = lastStage
              /\ lastStage' = counter
              /\ pc' = "dc_claim_wait"
              /\ UNCHANGED threw
              /\ log' = ""
         ELSE /\ log' = "All stages processed or max stage reached."
              /\ pc' = "dc_return"
              /\ threw' = FALSE
              /\ UNCHANGED <<inflight, prevStage, lastStage>>
    /\ UNCHANGED <<mainVars, ppkVars, profile, acting, afVars, ombVars, boxVars, txVars,
                   sigVars, counter, dailyCount, lastAnswer, pendingThrow, timer>>

\* the try / catch / finally of one iteration, up to `await delay(1000)`
DC_ClaimAnswer ==
    /\ pc = "dc_claim_wait"
    /\ Waiting("claim")
    /\ inflight' = Await(inflight)
    /\ \E a \in SimpleAnswers({0, 1}) :
         /\ lastAnswer' = a
         /\ counter' = IF ClaimAdvances(a) THEN counter + 1 ELSE counter
         /\ pendingThrow' = (~a.ok /\ HandlerThrows(a.err))
         /\ log' = IF a.ok /\ a.wellFormed THEN "Daily claim has been successful!"
                   ELSE IF ~a.ok /\ HandlerThrows(a.err) THEN ""
                   ELSE IF ~a.ok /\ a.err.resp /\ a.err.msg = MsgNotFinished
                          THEN "Error claiming for stage"
                   ELSE IF ~a.ok /\ a.err.resp /\ IsAlreadyClaimed(a.err)
                          THEN "Already claimed for stage"
                   ELSE "Error claiming"
    /\ timer' = ClaimDelayMs
    /\ pc' = "dc_delay"
    /\ UNCHANGED <<threw, mainVars, ppkVars, profile, acting, afVars, ombVars, boxVars,
                   txVars, sigVars, dailyCount, lastStage, prevStage>>

\* the timer of finally fired: the pending error reaches the outer catch, or the
\* loop goes on
DC_Delay ==
    /\ pc = "dc_delay"
    /\ timer' = 0
    /\ IF pendingThrow
         THEN /\ log' = "Error in daily claim"
              /\ pc' = "dc_return"
         ELSE /\ log' = ""
              /\ pc' = "dc_loop"
    /\ threw' = FALSE
    /\ pendingThrow' = FALSE
    /\ UNCHANGED <<mainVars, ppkVars, profile, acting, afVars, ombVars, boxVars, txVars,
                   sigVars, counter, dailyCount, lastStage, prevStage, lastAnswer,
                   inflight>>

\* ------------------------------------------------------------ specification
Next ==
    \/ Main_Start \/ Main_Loop \/ Main_AfterKey \/ Main_Finally
    \/ PPK_Entry \/ GT_Challenge \/ GT_Authorize \/ GP_Answer \/ PPK_AfterProfile
    \/ PPK_Menu \/ PPK_AskBoxes \/ PPK_AfterBoxes \/ PPK_AfterClaim \/ PPK_AfterLogin
    \/ AF_Cycle \/ AF_AfterLogin \/ AF_AfterClaim \/ AF_AfterProfile \/ AF_AfterBoxes
    \/ AF_Delay
    \/ TX_Attempt \/ TX_SendAnswer \/ TX_ConfirmAnswer \/ TX_Delay
    \/ DL_Entry \/ DL_TxAnswer \/ DL_AfterTx \/ DL_PostAnswer
    \/ OB_Attempt \/ OB_BuildAnswer \/ OB_AfterTx \/ OB_PostAnswer \/ OB_Delay
    \/ OMB_Loop \/ OMB_AfterBox
    \/ DC_Entry \/ FD_Answer \/ DC_AfterFetch \/ DC_Loop \/ DC_ClaimAnswer \/ DC_Delay

Spec == Init /\ [][Next]_vars

\* every awaited request is answered and every timer fires: the program is
\* never left waiting, so it takes a step whenever one is possible
FairSpec == Spec /\ WF_vars(Next)

\* ------------------------------------------------------------ positions
TxPositions == {"tx_entry", "tx_send_wait", "tx_confirm_wait", "tx_delay"}

LoginPositions == {"dl_entry", "dl_tx_wait", "dl_post_wait", "dl_return"}

ClaimPositions ==
    {"dc_entry", "fd_wait", "fd_return", "dc_loop", "dc_claim_wait", "dc_delay", "dc_return"}

Outstanding(eps) == { k \in 1..Len(inflight) : inflight[k].ep \in eps }

\* ------------------------------------------------------------ claims
\* C1: every retry is fixed-count, so every invocation of doTransactions,
\* openMysteryBox, dailyLogin and dailyClaim terminates (returns or throws),
\* whatever the API and the RPC node answer.
C1_EveryInvocationTerminates ==
    /\ (pc = "tx_entry") ~> (pc = "tx_return")
    /\ (pc = "ob_entry") ~> (pc = "ob_return")
    /\ (pc = "dl_entry") ~> (pc = "dl_return")
    /\ (pc = "dc_entry") ~> (pc = "dc_return")

\* C2: doTransactions with the default retries makes at most 4 attempts; it
\* returns the signature sent and confirmed in its latest attempt and makes no
\* attempt after a confirmation; when it throws, 4 attempts were made and the
\* error is the one of the 4th attempt.
C2_TxBounded ==
    /\ txAttempts <= 4
    /\ (pc = "tx_return" /\ ~threw) =>
          /\ signature \in Signatures
          /\ signature = sentSig
          /\ signature = confirmedSig
          /\ txOutcome = "returned"
    /\ (pc = "tx_return" /\ threw) =>
          /\ txAttempts = 4
          /\ txErrorOf = 4
          /\ confirmedSig = NoSig
    /\ confirmedSig # NoSig => pc \notin TxPositions

\* a call that succeeded in its 4th attempt
C2_Witness == pc = "tx_return" /\ ~threw /\ txAttempts = 4

\* the three answers of the claim: a success (the request resolved and the body
\* carries the claimed status), 'already done', 'not ready'
C3_Advancing(a) ==
    \/ a.ok /\ a.wellFormed
    \/ ~a.ok /\ a.err.resp /\ a.err.data /\ a.err.code \in {100015, 100016}
    \/ ~a.ok /\ a.err.resp /\ a.err.data /\ a.err.msg = "interact task not finished"

\* C3: after the answer to a claim request for stage s the counter is s + 1
\* exactly when the answer is a success, 'already done' or 'not ready', and s
\* otherwise; the next claim request of the invocation is for s + 1 in the first
\* case and again for s in the second.
C3_ClaimClassification ==
    /\ pc = "dc_delay" =>
          counter = lastStage + (IF C3_Advancing(lastAnswer) THEN 1 ELSE 0)
    /\ (pc = "dc_claim_wait" /\ prevStage # 0) =>
          lastStage = prevStage + (IF C3_Advancing(lastAnswer) THEN 1 ELSE 0)

\* stage 2 is requested again after a transient failure of stage 2
C3_Witness ==
    /\ pc = "dc_claim_wait"
    /\ prevStage = 2
    /\ lastStage = 2
    /\ ~lastAnswer.ok
    /\ ~lastAnswer.err.resp

\* C4: in a cycle of runAutoFlow dailyLogin runs first, dailyClaim only after
\* dailyLogin has returned, and a build-tx or open request is outstanding only
\* after dailyClaim has returned and the profile has been fetched again.
C4_AutoFlowOrder ==
    flow = "auto" =>
       /\ pc \in LoginPositions \ {"dl_return"} => cycleDone = {}
       /\ pc \in ClaimPositions => "login" \in cycleDone
       /\ Outstanding({"build_tx", "open"}) # {} => {"login", "claim", "profile"} \subseteq cycleDone

\* a box is being opened in the unattended loop
C4_Witness == flow = "auto" /\ Waiting("open")

\* C5: at most one request is outstanding, at most one credential is being
\* processed (the one of the loop index, keys taken in list order), and at most
\* one reward action is in progress.
C5_Sequential ==
    /\ Len(inflight) <= 1
    /\ Cardinality(active) <= 1
    /\ active \subseteq {i}
    /\ \A k \in 1..Len(invoked) : invoked[k] = k - 1
    /\ Len(invoked) \in {i, i + 1}
    /\ Cardinality(acting) <= 1
    /\ (inflight # <<>> \/ acting # {}) => active = {i}

\* the second key is being processed, a box request is outstanding
C5_Witness == i = 1 /\ active = {1} /\ acting = {"box"} /\ Len(inflight) = 1

\* C6: whatever the user answers and the API returns, as long as every remote
\* call returns, processPrivateKey is invoked for every key and the run reaches
\* 'All private keys processed.'
C6_AllKeysProcessed ==
    <>(/\ pc = "main_finally"
       /\ log = "All private keys processed."
       /\ Len(invoked) = Len(keys))

\* C7: doTransactions and openMysteryBox each wait exactly once, for 1000 ms,
\* between two consecutive attempts of theirs, whatever the retries left; there
\* is no wait after the last failed attempt nor after a success.
C7_FlatDelay ==
    /\ \A k \in 1..Len(txWaits) : txWaits[k] = 1000
    /\ \A k \in 1..Len(boxWaits) : boxWaits[k] = 1000
    /\ pc = "tx_delay" => timer = 1000 /\ Len(txWaits) = txAttempts
    /\ pc = "tx_entry" => Len(txWaits) = txAttempts
    /\ pc \in {"tx_send_wait", "tx_confirm_wait", "tx_return"} =>
          Len(txWaits) = txAttempts - 1
    /\ pc = "ob_delay" => timer = 1000 /\ Len(boxWaits) = boxAttempts
    /\ pc = "ob_entry" => Len(boxWaits) = boxAttempts
    /\ (pc \in {"ob_build_wait", "ob_post_wait", "ob_return"}
          \/ (txCaller = "box" /\ pc \in TxPositions \cup {"tx_return"})) =>
          Len(boxWaits) = boxAttempts - 1

\* the last attempt of the last attempt failed: three waits each
C7_Witness ==
    /\ pc = "ob_return"
    /\ threw
    /\ Len(boxWaits) = 3
    /\ txOutcome = "threw"

\* C8: every claim request carries a stage in {1, 2, 3}; the first is for stage
\* 1; stages never decrease and go up by one only after an answer that advances
\* the counter; 'All stages processed or max stage reached.' is logged only
\* with the counter at 4.
C8_Stages ==
    /\ \A k \in Outstanding({"claim"}) : inflight[k].stage \in {1, 2, 3}
    /\ pc = "dc_claim_wait" =>
          /\ inflight[1].stage = lastStage
          /\ lastStage >= prevStage
          /\ prevStage = 0 => lastStage = 1
          /\ (prevStage # 0 /\ lastStage # prevStage) =>
                lastStage = prevStage + 1 /\ C3_Advancing(lastAnswer)
    /\ log = "All stages processed or max stage reached." => counter = 4

\* all three stages were claimed
C8_Witness ==
    /\ log = "All stages processed or max stage reached."
    /\ pc = "dc_return"
    /\ lastStage = 3

\* C9: a claim request is sent only with a daily count above 10; with a count of
\* 10 or less, or none, dailyClaim sends no claim request and returns normally
\* after logging 'Not enough transactions to claim rewards.'
C9_ClaimNeedsTransactions ==
    /\ (lastStage # 0 \/ Outstanding({"claim"}) # {}) =>
          dailyCount # Undefined /\ dailyCount > 10
    /\ (pc = "dc_return" /\ (dailyCount = Undefined \/ dailyCount <= 10)) =>
          /\ lastStage = 0
          /\ ~threw
          /\ log = "Error in daily claim: Not enough transactions to claim rewards."

\* dailyClaim returned on a count of exactly 10
C9_Witness == pc = "dc_return" /\ dailyCount = 10 /\ ~threw

\* C10: a POST to /user/check-in or /user/rewards/mystery-box/open is outstanding
\* only when doTransactions returned in this attempt, and its hash is the
\* signature returned, which was confirmed; after a throw of doTransactions no
\* such POST is sent in the attempt.
C10_PostOnlyConfirmed ==
    /\ \A k \in Outstanding({"checkin", "open"}) :
          /\ txOutcome = "returned"
          /\ inflight[k].hash \in Signatures
          /\ inflight[k].hash = signature
          /\ inflight[k].hash = confirmedSig
    /\ txOutcome = "threw" => Outstanding({"checkin", "open"}) = {}

\* the open POST of a second attempt
C10_Witness == Waiting("open") /\ boxAttempts = 2 /\ inflight[1].hash = 2

\* C11: the retry budgets nest.  One call of openMysteryBox makes at most 4
\* attempts; each attempt issues one build-tx request and runs doTransactions
\* with a fresh budget of 3 retries, so one call issues at most 4 build-tx
\* requests and at most 16 sendRawTransaction calls.
C11_NestedBudgets ==
    /\ boxAttempts <= BoxDefaultRetries + 1
    /\ Cardinality(Outstanding({"build_tx"})) <= 1
    /\ pc = "ob_build_wait" => Outstanding({"build_tx"}) # {}
    /\ boxSends <= boxAttempts * (TxDefaultRetries + 1)
    /\ boxSends <= (BoxDefaultRetries + 1) * (TxDefaultRetries + 1)
    /\ (txCaller = "box" /\ txAttempts = 0 /\ pc = "tx_entry") => txRetries = TxDefaultRetries
    /\ (txCaller = "box" /\ pc \in TxPositions) => txRetries + txAttempts <= TxDefaultRetries + 1

\* both bounds are met: the fourth attempt of a call has sent its fourth transaction
C11_Witness ==
    /\ boxAttempts = BoxDefaultRetries + 1
    /\ boxSends = (BoxDefaultRetries + 1) * (TxDefaultRetries + 1)

\* C12: within one call of openMysteryBox at most one transaction is confirmed:
\* once doTransactions has returned a signature (a transaction of this call is
\* confirmed), the call builds and submits no further transaction, also when
\* the POST .../mystery-box/open that follows fails.
C12_AtMostOneTransaction ==
    confirmedSig # NoSig => Outstanding({"build_tx", "sendRawTransaction"}) = {}

\* C13: the unattended loop never ends and never lets an error escape:
\* runAutoFlow neither returns nor throws, every cycle (completed, or failed
\* at any step) is followed by the 12-hour wait, and the wait is followed by
\* another cycle that starts with dailyLogin.
C13_LoopNeverEnds ==
    /\ [](flow = "auto" => [](flow = "auto" /\ pc # "ppk_return"))
    /\ (pc = "af_cycle") ~> (pc = "af_delay" /\ timer = AutoFlowDelayMs)
    /\ (pc = "af_delay") ~> (pc = "dl_entry" /\ flow = "auto" /\ cycleDone = {})

\* openMultipleBoxes has been invoked from the box prompt of method 2
ManualBoxesInvoked == flow = "open" /\ pc \notin {"ppk_menu", "ppk_ask_boxes", "ppk_return"}

\* C14: the manual box-opening mode never opens more boxes than are available:
\* openMultipleBoxes is invoked only with a count that does not exceed the
\* ring_monitor of the fetched profile and calls openMysteryBox at most that
\* often; an entered count above ring_monitor opens no box and the prompt is
\* asked again; a non-numeric entry opens no box.
C14_NeverMoreThanAvailable ==
    /\ ManualBoxesInvoked =>
         /\ IsNumber(totalClaim)
         /\ availableBoxes = Undefined \/ totalClaim <= availableBoxes
         /\ boxCalls <= totalClaim \/ boxCalls = 0
    /\ (flow = "open" /\ ~ManualBoxesInvoked) => (boxCalls = 0 /\ inflight = <<>>)
    /\ log = "You cannot open more boxes than available" =>
         (pc = "ppk_ask_boxes" /\ boxCalls = 0 /\ "box" \notin acting /\ inflight = <<>>)
    /\ log = "Please enter a valid number" =>
         (pc = "ppk_return" /\ boxCalls = 0 /\ "box" \notin acting /\ inflight = <<>>)

\* every available box has been opened in the manual mode
C14_Witness ==
    /\ pc = "omb_return"
    /\ flow = "open"
    /\ availableBoxes = MaxBoxes
    /\ totalClaim = availableBoxes
    /\ boxCalls = MaxBoxes

\* a call of openMysteryBox made by openMultipleBoxes has not come back to it
BoxCallRunning ==
    \/ pc \in {"ob_entry", "ob_build_wait", "ob_post_wait", "ob_delay", "ob_return"}
    \/ txCaller = "box" /\ pc \in TxPositions \cup {"tx_return"}

\* the number of iterations of `for (let i = 0; i < n; i++)`
Iterations(n) == IF JsGt(n, 0) THEN n ELSE 0

\* C15: openMultipleBoxes(token, keypair, n) calls openMysteryBox one at a
\* time; when it returns it has made exactly n calls, whatever success flags
\* the responses carried (a response with success false is logged and the
\* loop goes on); when a call throws after its retries, no further box is
\* attempted and the error leaves openMultipleBoxes.
C15_ExactlyNCalls ==
    /\ BoxCallRunning => boxCalls = boxI + 1
    /\ pc = "omb_loop" => boxCalls = boxI
    /\ (pc = "omb_return" /\ ~threw) => boxCalls = Iterations(totalClaim)
    /\ (pc = "omb_return" /\ threw) => (boxCalls = boxI + 1 /\ boxCalls <= totalClaim)
    /\ (pc = "ob_return" /\ threw) => (boxCalls = boxI + 1 /\ boxAttempts = BoxDefaultRetries + 1)
    /\ log \in {"Box opened successfully!", "All boxes have been opened."} =>
         (pc = "omb_loop" /\ ~threw /\ boxCalls <= totalClaim)

\* a response with success false came back and the loop goes on to the next box
C15_Witness ==
    /\ pc = "omb_loop"
    /\ log = "All boxes have been opened."
    /\ boxCalls = 1
    /\ totalClaim = MaxBoxes

\* C16: dailyLogin and dailyClaim never throw to their caller, whatever the API
\* and the RPC node answer; so in every auto-flow cycle dailyClaim is invoked
\* after dailyLogin whatever the check-in did, and the profile fetch is
\* attempted whatever dailyClaim did: a cycle never ends before its third
\* statement.
C16_NeverThrow ==
    /\ pc = "dl_return" => ~threw
    /\ pc = "dc_return" => ~threw
    /\ pc = "af_delay" => afStep >= 3

\* the endpoints that are sent the Authorization header
AuthenticatedEndpoints ==
    {"profile", "daily", "claim", "checkin_tx", "checkin", "build_tx", "open"}

\* C17: no request is sent to an authenticated endpoint unless the
\* challenge/authorize exchange succeeded and returned a token; when getToken
\* fails, processPrivateKey issues no further request for that credential.
C17_TokenBeforeRequests ==
    /\ \A k \in 1..Len(inflight) :
         inflight[k].ep \in AuthenticatedEndpoints => inflight[k].auth = "token"
    /\ token = "undefined" => inflight = <<>>

\* C18: failures are isolated per credential.  processPrivateKey never throws:
\* a failure while one key is processed (undecodable key, failed
\* authentication or profile fetch, wallet_balance of 0, invalid menu choice,
\* box opening that exhausted its retries) is logged and ends that key only;
\* the loop of main goes on with the next key and its catch is never entered.
C18_FailuresIsolated ==
    /\ pc = "ppk_return" => (~threw /\ active = {i} /\ inflight = <<>>)
    /\ log \in {"Error processing private key", "There might be errors"} => pc = "ppk_return"
    /\ pc = "main_loop" => (~threw /\ Len(invoked) = i /\ i <= Len(keys))
    /\ pc = "main_finally" => (log = "All private keys processed." /\ Len(invoked) = Len(keys))
    /\ log # "Error in bot operation"

\* the opening of a box exhausted its retries for a key that is not the last
C18_Witness ==
    /\ pc = "ppk_return"
    /\ log = "Error processing private key"
    /\ flow = "open"
    /\ i + 1 < Len(keys)

====
